---- MODULE Spec2Model ----
(***************************************************************************)
(* Model of lisa/analysis/rta.py (RTAEventsAnalysis): the phase tables and *)
(* phase windows derived from the rtapp_loop trace events of rt-app tasks, *)
(* and the rtapp_stats table with its performance index; and of            *)
(* doc/conf.py: prepare() and CustomPythonDomain.find_obj.                 *)
(*                                                                         *)
(* A pandas DataFrame is a sequence of rows in table order; the index      *)
(* (the event timestamp) is the field Time of a row.  Timestamps are       *)
(* integers (trace ticks), so no floating-point rounding is modelled.      *)
(* A task is named by its comm; the pid of a TaskID is tied to the comm.   *)
(* A Python exception is the field err of a result, named as the           *)
(* exception class the code raises ("ValueError", "IndexError",            *)
(* "KeyError"); NoErr marks a normal return.                               *)
(***************************************************************************)
EXTENDS Integers, Sequences, FiniteSets, TLC

(***************************************************************************)
(* Bounds of the model.                                                    *)
(***************************************************************************)
\* Most phases of an rt-app task.
MaxPhases == 2
\* Most repetitions of one phase (the "loop" of a phase).
MaxPhaseLoops == 2
\* Most repetitions of the whole phase list (the "loop" of a thread).
MaxThreadLoops == 2
\* Trace ticks between the start and the end event of one activation.
RunTicks == 2
\* Most trace ticks between an end event and the next start event.
MaxGap == 1
\* Largest magnitude of the slack of an rtapp_stats event.
MaxSlack == 1
\* Largest configured period and run time of an rtapp_stats event.
MaxPeriod == 2
\* Most characters of a cross-referenced name.
MaxNameLen == 3

(***************************************************************************)
(* The input: the rtapp_loop event table of a trace.                       *)
(***************************************************************************)
Tasks == {"test_task-0", "test_task-1"}

NoErr == "none"

\* Number of rtapp_loop events of a complete run of P phases, each looped L
\* times, the whole list looped TL times: a start and an end per activation.
RunLength(P, L, TL) == 2 * P * L * TL

\* The k-th (from 0) rtapp_loop event of such a run of task comm.
RunEvent(comm, P, L, gap, k) ==
    LET a == k \div 2
    IN  [comm        |-> comm,
         Time        |-> a * (RunTicks + gap) + (IF k % 2 = 1 THEN RunTicks ELSE 0),
         event       |-> IF k % 2 = 0 THEN "start" ELSE "end",
         phase       |-> (a % (P * L)) \div L,
         phase_loop  |-> a % L,
         thread_loop |-> a \div (P * L)]

\* The first n events of the run: the trace stops while the task still runs
\* when n < RunLength.
RunEvents(comm, P, L, gap, n) == [i \in 1..n |-> RunEvent(comm, P, L, gap, i - 1)]

\* Two time-ordered tables merged into one time-ordered table.
RECURSIVE MergeByTime(_, _)
MergeByTime(a, b) ==
    IF a = <<>> THEN b
    ELSE IF b = <<>> THEN a
    ELSE IF Head(a).Time <= Head(b).Time
         THEN <<Head(a)>> \o MergeByTime(Tail(a), b)
         ELSE <<Head(b)>> \o MergeByTime(a, Tail(b))

\* The traces of the model.  test_task-0 runs P phases of L loops each and is
\* traced for its first n events (the trace may stop in the middle of a run,
\* and a run of several thread loops is a longer prefix); test_task-1 is
\* absent (P1 = 0) or runs P1 phases once.
Traces ==
    { MergeByTime(RunEvents("test_task-0", c[1], c[2], c[3], c[4]),
                  RunEvents("test_task-1", c[5], 1, c[3], 2 * c[5])) :
        c \in { d \in (1..MaxPhases) \X (1..MaxPhaseLoops) \X (0..MaxGap)
                      \X (0..RunLength(MaxPhases, MaxPhaseLoops, MaxThreadLoops))
                      \X (0..MaxPhases) :
                  d[4] <= RunLength(d[1], d[2], MaxThreadLoops) } }

VARIABLES
    rtapp_loop,     \* trace.df_events('rtapp_loop'): the input table
    rtapp_stats,    \* trace.df_events('rtapp_stats'): the input table
    memo_df_phases, \* the @memoized cache of df_phases, per task
    objects,        \* the documented objects of the Sphinx Python domain
    os_environ,     \* os.environ of the documentation build
    commands,       \* the subprocesses prepare() has run, in order
    module_name,    \* __name__ of the documentation configuration module
    pc,             \* "idle", or "returned" once a call has produced result
    result          \* the last call and what it returned or raised

\* The event tables of the trace.
trace_events == <<rtapp_loop, rtapp_stats>>

\* The state of the documentation build.
doc_build == <<objects, os_environ, commands, module_name>>

vars == <<rtapp_loop, rtapp_stats, memo_df_phases, objects, os_environ,
          commands, module_name, pc, result>>


(***************************************************************************)
(* pandas primitives on tables.                                            *)
(***************************************************************************)
Ok(v) == [err |-> NoErr, val |-> v]
Raise(e) == [err |-> e, val |-> <<>>]

\* The element of a singleton set: The({ e(x) : x \in {v} }) is e(v) with v
\* computed once, as a local variable of the code is.
The(S) == CHOOSE x \in S : TRUE

\* df[::2]: every other row, from the first.
EveryOther(s) == [i \in 1..((Len(s) + 1) \div 2) |-> s[2 * i - 1]]

\* DataFrame.head(n): the first n rows, or all but the last -n rows.
DfHead(s, n) ==
    IF n >= 0 THEN SubSeq(s, 1, IF n < Len(s) THEN n ELSE Len(s))
    ELSE SubSeq(s, 1, Len(s) + n)

\* DataFrame.tail(1): the last row, if any.
DfTail1(s) == IF s = <<>> THEN <<>> ELSE <<s[Len(s)]>>

\* df[timestamp:] on a time-ordered index: the rows labelled timestamp or later.
SliceFrom(s, timestamp) == SelectSeq(s, LAMBDA r : r.Time >= timestamp)

\* A deduplication that orders its result by the key (phase, phase_loop), as
\* groupby(['phase', 'phase_loop']).last() would, instead of keeping the rows
\* in table order.
KeyBefore(a, b) ==
    \/ a.phase < b.phase
    \/ a.phase = b.phase /\ a.phase_loop < b.phase_loop

DropDuplicatesSortedByKey(s) ==
    LET last == { i \in 1..Len(s) :
                    ~ \E j \in (i + 1)..Len(s) :
                        /\ s[j].phase = s[i].phase
                        /\ s[j].phase_loop = s[i].phase_loop }
    IN  [k \in 1..Cardinality(last) |->
           s[CHOOSE i \in last :
               Cardinality({ j \in last : KeyBefore(s[j], s[i]) }) = k - 1]]

\* DataFrame.drop_duplicates(keep='last') on the columns (phase, phase_loop).
DropDuplicatesKeepLast(s) ==
    LET flagged == [i \in 1..Len(s) |->
                      [row  |-> s[i],
                       keep |-> ~ \E j \in (i + 1)..Len(s) :
                                   /\ s[j].phase = s[i].phase
                                   /\ s[j].phase_loop = s[i].phase_loop]]
        kept == SelectSeq(flagged, LAMBDA f : f.keep)
    IN  [i \in 1..Len(kept) |-> kept[i].row]

\* groupby(phase).head(1): the first row of every phase, in table order.
FirstOfEachPhase(s) ==
    LET flagged == [i \in 1..Len(s) |->
                      [row  |-> s[i],
                       keep |-> ~ \E j \in 1..(i - 1) : s[j].phase = s[i].phase]]
        kept == SelectSeq(flagged, LAMBDA f : f.keep)
    IN  [i \in 1..Len(kept) |-> kept[i].row]

\* sort_values(by=[phase_loop, thread_loop], ascending=False) followed by
\* groupby(phase).head(1) and sort_index(): of every phase the row with the
\* greatest (phase_loop, thread_loop), the rows then in time order.  No two
\* rows of one phase of a trace share (phase_loop, thread_loop).
Newer(a, b) ==
    \/ a.phase_loop > b.phase_loop
    \/ a.phase_loop = b.phase_loop /\ a.thread_loop > b.thread_loop

NewestOfEachPhase(s) ==
    LET flagged == [i \in 1..Len(s) |->
                      [row  |-> s[i],
                       keep |-> ~ \E j \in 1..Len(s) :
                                   /\ s[j].phase = s[i].phase
                                   /\ Newer(s[j], s[i])]]
        kept == SelectSeq(flagged, LAMBDA f : f.keep)
    IN  [i \in 1..Len(kept) |-> kept[i].row]

(***************************************************************************)
(* RTAEventsAnalysis.                                                      *)
(***************************************************************************)
\* rtapp_tasks: the tasks with an rtapp_ event in the trace.
rtapp_tasks(df) == { df[i].comm : i \in 1..Len(df) }

\* _task_filtered with a task given: the rows of the task, or ValueError.
_task_filtered(df, task) ==
    IF task \notin rtapp_tasks(df) THEN Raise("ValueError")
    ELSE Ok(SelectSeq(df, LAMBDA r : r.comm = task))

df_rtapp_loop(df, task) == _task_filtered(df, task)

\* The phase_loop mark of a row: 0 for a start event of phase_loop 0, else -1.
keep_first_start(raw) ==
    IF raw.phase_loop # 0 THEN -1
    ELSE IF raw.event = "end" THEN -1
    ELSE 0

\* The rows df_phases keeps: phase_loop rewritten by keep_first_start, then
\* the last row of every (phase, phase_loop).
RetainedEvents(loops_df) ==
    DropDuplicatesKeepLast(
        [i \in 1..Len(loops_df) |->
           [loops_df[i] EXCEPT !.phase_loop = keep_first_start(loops_df[i])]])

\* The body of df_phases on the rows of one task.  Assigning the duration
\* column raises ValueError when its length is not the number of rows.
PhasesOf(loops_df) ==
    The({ LET n == Len(phases_df)
              deltas == [i \in 1..(IF n = 0 THEN 0 ELSE n - 1) |->
                           phases_df[i + 1].Time - phases_df[i].Time]
              durations == EveryOther(deltas)
              starts == EveryOther(phases_df)
          IN  IF Len(durations) # Len(starts) THEN Raise("ValueError")
              ELSE Ok([i \in 1..Len(starts) |->
                         [Time |-> starts[i].Time, duration |-> durations[i]]])
          : phases_df \in {RetainedEvents(loops_df)} })

\* df_phases(task) computed from the trace, the cache aside.
df_phases(df, task) ==
    The({ IF loops_df.err # NoErr THEN loops_df ELSE PhasesOf(loops_df.val)
          : loops_df \in {df_rtapp_loop(df, task)} })

\* The @memoized wrapper of df_phases: a cached table is returned as it is, a
\* computed one is cached, an exception leaves the cache as it was.
NotCached == Raise("NotCached")

\* A cache that is not keyed by the task: any cached table answers.
memoized_ignoring_task(memo, df, task) ==
    The({ [err  |-> r.err,
           val  |-> r.val,
           memo |-> IF r.err = NoErr THEN [memo EXCEPT ![task] = r] ELSE memo]
          : r \in {IF \E t \in DOMAIN memo : memo[t].err = NoErr
                   THEN memo[CHOOSE t \in DOMAIN memo : memo[t].err = NoErr]
                   ELSE df_phases(df, task)} })

memoized_df_phases(memo, df, task) ==
    The({ [err  |-> r.err,
           val  |-> r.val,
           memo |-> IF r.err = NoErr THEN [memo EXCEPT ![task] = r] ELSE memo]
          : r \in {IF memo[task].err = NoErr THEN memo[task] ELSE df_phases(df, task)} })

\* _get_rtapp_phases(event, task): a table of (Time, phase), in time order.
_get_rtapp_phases(df, event, task) ==
    The({ IF loops_df.err # NoErr THEN loops_df
          ELSE The({ Ok([i \in 1..Len(kept) |->
                           [Time |-> kept[i].Time, phase |-> kept[i].phase]])
                     : kept \in
                         {IF event = "start"
                          THEN FirstOfEachPhase(
                                  SelectSeq(loops_df.val,
                                            LAMBDA r : r.event = event /\ r.phase_loop = 0))
                          ELSE NewestOfEachPhase(
                                  SelectSeq(loops_df.val, LAMBDA r : r.event = event))} })
          : loops_df \in {df_rtapp_loop(df, task)} })

df_rtapp_phases_start(df, task) == _get_rtapp_phases(df, "start", task)

df_rtapp_phases_end(df, task) == _get_rtapp_phases(df, "end", task)

\* _get_task_phase(event, task, phase): a timestamp, or an exception.
\* df.loc[task.comm] raises KeyError on a table without a row of the task;
\* .values[0] raises IndexError when head().tail() selects no row.
_get_task_phase(df, event, task, phase) ==
    The({ IF t.err # NoErr THEN t
          ELSE IF t.val = <<>> THEN Raise("KeyError")
          ELSE The({ IF selected = <<>> THEN Raise("IndexError")
                     ELSE Ok(selected[1].Time)
                     : selected \in
                         {DfTail1(DfHead(t.val,
                                         (IF phase # 0 /\ phase < 0
                                          THEN phase + Len(t.val) ELSE phase) + 1))} })
          : t \in {IF event = "start" THEN df_rtapp_phases_start(df, task)
                   ELSE df_rtapp_phases_end(df, task)} })

df_rtapp_phase_start(df, task, phase) == _get_task_phase(df, "start", task, phase)

df_rtapp_phase_end(df, task, phase) == _get_task_phase(df, "end", task, phase)

PhaseWindow(id, start, end) == [id |-> id, start |-> start, end |-> end]

\* task_phase_window(task, phase): one PhaseWindow (in a sequence), or an
\* exception.
task_phase_window(df, task, phase) ==
    The({ IF phase_start.err # NoErr THEN phase_start
          ELSE The({ IF phase_end.err # NoErr THEN phase_end
                     ELSE Ok(<<PhaseWindow(phase, phase_start.val, phase_end.val)>>)
                     : phase_end \in {df_rtapp_phase_end(df, task, phase)} })
          : phase_start \in {df_rtapp_phase_start(df, task, phase)} })

\* The end of the last phase of a table: its start plus its duration.
LastPhaseEnd(table) == table[Len(table)].Time + table[Len(table)].duration

\* task_phase_at(task, timestamp): one PhaseWindow, None (the empty
\* sequence), or an exception; with the cache of df_phases it leaves.
task_phase_at(memo, df, task, timestamp) ==
    The({ IF ref.err # NoErr THEN [err |-> ref.err, val |-> <<>>, memo |-> ref.memo]
          ELSE IF ref.val = <<>> THEN [err |-> "IndexError", val |-> <<>>, memo |-> ref.memo]
          ELSE IF timestamp > LastPhaseEnd(ref.val)
               THEN [err |-> NoErr, val |-> <<>>, memo |-> ref.memo]
          ELSE The({ IF own.err # NoErr
                     THEN [err |-> own.err, val |-> <<>>, memo |-> own.memo]
                     ELSE The({ IF phase_id < 0
                                THEN [err |-> NoErr, val |-> <<>>, memo |-> own.memo]
                                ELSE The({ [err  |-> window.err,
                                            val  |-> window.val,
                                            memo |-> own.memo]
                                           : window \in
                                               {task_phase_window(df, task, phase_id)} })
                                : phase_id \in
                                    {Len(own.val)
                                       - Len(SliceFrom(own.val, timestamp)) - 1} })
                     : own \in {memoized_df_phases(ref.memo, df, task)} })
          : ref \in {memoized_df_phases(memo, df, "test_task-0")} })

\* A generator that numbers the windows from 1.
task_phase_windows_from_one(memo, df, task) ==
    The({ [err  |-> t.err,
           val  |-> [i \in 1..Len(t.val) |->
                       PhaseWindow(i, t.val[i].Time,
                                   t.val[i].Time + t.val[i].duration)],
           memo |-> t.memo]
          : t \in {memoized_df_phases(memo, df, task)} })

\* task_phase_windows(task): the PhaseWindows the generator yields, in order.
task_phase_windows(memo, df, task) ==
    The({ [err  |-> t.err,
           val  |-> [i \in 1..Len(t.val) |->
                       PhaseWindow(i - 1, t.val[i].Time,
                                   t.val[i].Time + t.val[i].duration)],
           memo |-> t.memo]
          : t \in {memoized_df_phases(memo, df, task)} })

(***************************************************************************)
(* The analysis session: a trace is loaded, then the methods are called.   *)
(***************************************************************************)
\* Timestamps a caller asks about: from the trace start to past its end.
LastTime(df) == IF df = <<>> THEN 0 ELSE df[Len(df)].Time

Timestamps(df) == 0..(LastTime(df) + 1)

\* Phase indices a caller asks about: in range and out of range, both signs.
PhaseArgs == (-(MaxPhases + 2))..(MaxPhases + 1)

NoCall == [op |-> "none", task |-> "", arg |-> 0, err |-> NoErr, val |-> <<>>]

\* No documentation build takes part in an analysis session.
NoDocBuild ==
    /\ objects = {}
    /\ os_environ = <<>>
    /\ commands = <<>>
    /\ module_name = ""

Init ==
    /\ rtapp_loop \in Traces
    /\ rtapp_stats = <<>>
    /\ memo_df_phases = [t \in Tasks |-> NotCached]
    /\ NoDocBuild
    /\ pc = "idle"
    /\ result = NoCall

Returned(op, task, arg, r) ==
    /\ pc' = "returned"
    /\ result' = [op |-> op, task |-> task, arg |-> arg, err |-> r.err, val |-> r.val]
    /\ UNCHANGED <<trace_events, doc_build>>

Call_df_phases ==
    /\ pc = "idle"
    /\ \E task \in Tasks :
         \E r \in {memoized_df_phases(memo_df_phases, rtapp_loop, task)} :
           /\ memo_df_phases' = r.memo
           /\ Returned("df_phases", task, 0, r)

Call_task_phase_windows ==
    /\ pc = "idle"
    /\ \E task \in Tasks :
         \E r \in {task_phase_windows(memo_df_phases, rtapp_loop, task)} :
           /\ memo_df_phases' = r.memo
           /\ Returned("task_phase_windows", task, 0, r)

Call_task_phase_window ==
    /\ pc = "idle"
    /\ \E task \in Tasks, phase \in PhaseArgs :
         \E r \in {task_phase_window(rtapp_loop, task, phase)} :
           /\ Returned("task_phase_window", task, phase, r)
           /\ UNCHANGED memo_df_phases

Call_task_phase_at ==
    /\ pc = "idle"
    /\ \E task \in Tasks, timestamp \in Timestamps(rtapp_loop) :
         \E r \in {task_phase_at(memo_df_phases, rtapp_loop, task, timestamp)} :
           /\ memo_df_phases' = r.memo
           /\ Returned("task_phase_at", task, timestamp, r)

\* The caller takes the result; the session is ready for the next call.
Return ==
    /\ pc = "returned"
    /\ pc' = "idle"
    /\ result' = NoCall
    /\ UNCHANGED <<trace_events, doc_build, memo_df_phases>>

Next ==
    \/ Call_df_phases
    \/ Call_task_phase_windows
    \/ Call_task_phase_window
    \/ Call_task_phase_at
    \/ Return

Spec == Init /\ [][Next]_vars

(***************************************************************************)
(* The session on the trace of the worked example: one task, phase 0 run   *)
(* for two loops (the end of its first loop not traced) and phase 1 for    *)
(* one.                                                                    *)
(***************************************************************************)
ExampleRow(comm, t, event, phase, phase_loop) ==
    [comm |-> comm, Time |-> t, event |-> event, phase |-> phase,
     phase_loop |-> phase_loop, thread_loop |-> 0]

ExampleEvents(comm) ==
    << ExampleRow(comm, 0, "start", 0, 0),
       ExampleRow(comm, 5, "start", 0, 1),
       ExampleRow(comm, 10, "end", 0, 1),
       ExampleRow(comm, 10, "start", 1, 0),
       ExampleRow(comm, 20, "end", 1, 0) >>

\* The timestamps asked about: the event times and two more, 15 and 25.
ExampleTimestamps == {0, 5, 10, 15, 20, 25}

InitExample ==
    /\ rtapp_loop \in { ExampleEvents(comm) : comm \in Tasks }
    /\ rtapp_stats = <<>>
    /\ memo_df_phases = [t \in Tasks |-> NotCached]
    /\ NoDocBuild
    /\ pc = "idle"
    /\ result = NoCall

Example_task_phase_at ==
    /\ pc = "idle"
    /\ \E task \in Tasks, timestamp \in ExampleTimestamps :
         \E r \in {task_phase_at(memo_df_phases, rtapp_loop, task, timestamp)} :
           /\ memo_df_phases' = r.memo
           /\ Returned("task_phase_at", task, timestamp, r)

NextExample ==
    \/ Call_df_phases
    \/ Call_task_phase_windows
    \/ Call_task_phase_window
    \/ Example_task_phase_at
    \/ Return

SpecExample == InitExample /\ [][NextExample]_vars

(***************************************************************************)
(* rtapp_stats: the stats table with its performance index, and the        *)
(* optional task argument of the df_rtapp_* methods.                       *)
(***************************************************************************)
\* A float64 quotient of two integers as pandas computes it: a fraction with
\* a positive denominator, or inf, -inf or nan on a division by zero (no
\* exception is raised).
Divide(a, b) ==
    IF b > 0 THEN [kind |-> "finite", num |-> a, den |-> b]
    ELSE IF b < 0 THEN [kind |-> "finite", num |-> 0 - a, den |-> 0 - b]
    ELSE IF a > 0 THEN [kind |-> "inf", num |-> 0, den |-> 1]
    ELSE IF a < 0 THEN [kind |-> "-inf", num |-> 0, den |-> 1]
    ELSE [kind |-> "nan", num |-> 0, den |-> 1]

\* The rows of an rtapp_stats table: each task has logged at most one event.
StatsRows(comm) ==
    { [comm |-> comm, Time |-> 0, slack |-> s, c_period |-> p, c_run |-> r] :
        s \in (-MaxSlack)..MaxSlack, p \in 1..MaxPeriod, r \in 1..MaxPeriod }

StatsOf(comm) == {<<>>} \cup { <<row>> : row \in StatsRows(comm) }

StatsTables ==
    { [i \in 1..Len(a \o b) |-> [(a \o b)[i] EXCEPT !.Time = i]] :
        a \in StatsOf("test_task-0"), b \in StatsOf("test_task-1") }

\* _get_stats: a copy of the table with the column perf_index added.
_get_stats(stats) ==
    [i \in 1..Len(stats) |->
       [comm       |-> stats[i].comm,
        Time       |-> stats[i].Time,
        slack      |-> stats[i].slack,
        c_period   |-> stats[i].c_period,
        c_run      |-> stats[i].c_run,
        perf_index |-> Divide(stats[i].slack,
                              stats[i].c_period - stats[i].c_run)]]

\* The tasks of the trace, rt-app tasks or not: TaskID(pid, comm).
TaskID(pid, comm) == [pid |-> pid, comm |-> comm]

TraceTaskIDs ==
    { TaskID(0, "swapper"), TaskID(1, "sh"),
      TaskID(2, "test_task-0"), TaskID(3, "test_task-1") }

\* A task argument: None, an int pid, a str name or a TaskID.
NoPid == -1

TaskArg(type, pid, comm) == [type |-> type, pid |-> pid, comm |-> comm]

TaskArgs ==
    {TaskArg("NoneType", NoPid, "")}
    \cup {TaskArg("str", NoPid, "")}
    \cup { TaskArg("int", t.pid, "") : t \in TraceTaskIDs }
    \cup { TaskArg("str", NoPid, t.comm) : t \in TraceTaskIDs }
    \cup { TaskArg("TaskID", t.pid, t.comm) : t \in TraceTaskIDs }

\* Python's "not task": None, the int 0 and the empty str are false.
not_task(task) ==
    \/ task.type = "NoneType"
    \/ task.type = "int" /\ task.pid = 0
    \/ task.type = "str" /\ task.comm = ""

\* trace.get_task_id: the TaskID of the task an int or a str names.
get_task_id(task) ==
    IF task.type = "int"
    THEN CHOOSE t \in TraceTaskIDs : t.pid = task.pid
    ELSE IF task.type = "str"
    THEN CHOOSE t \in TraceTaskIDs : t.comm = task.comm
    ELSE TaskID(task.pid, task.comm)

\* _task_filtered(df, task=None) with its optional argument: the table as
\* it is when "not task", else the filter on the resolved TaskID.
task_filtered_optional(df, task) ==
    IF not_task(task) THEN Ok(df)
    ELSE _task_filtered(df,
            (IF task.type # "TaskID" THEN get_task_id(task)
             ELSE TaskID(task.pid, task.comm)).comm)

df_rtapp_stats(stats, task) == task_filtered_optional(_get_stats(stats), task)

\* The session on a trace collected with the rtapp_stats event only.
InitStats ==
    /\ rtapp_loop = <<>>
    /\ rtapp_stats \in StatsTables
    /\ memo_df_phases = [t \in Tasks |-> NotCached]
    /\ NoDocBuild
    /\ pc = "idle"
    /\ result = NoCall

Call_df_rtapp_stats ==
    /\ pc = "idle"
    /\ \E task \in TaskArgs :
         \E r \in {df_rtapp_stats(rtapp_stats, task)} :
           /\ Returned("df_rtapp_stats", task, 0, r)
           /\ UNCHANGED memo_df_phases

NextStats ==
    \/ Call_df_rtapp_stats
    \/ Return

SpecStats == InitStats /\ [][NextStats]_vars

(***************************************************************************)
(* doc/conf.py, CustomPythonDomain.find_obj: cross-references to ignored   *)
(* names resolve to a placeholder.  A name is a sequence of characters of  *)
(* a reduced alphabet: "d" (first letter of an ignored package), "x" (any  *)
(* other letter), "_" and ".".                                             *)
(***************************************************************************)
Chars == {"d", "x", "_", "."}

Names == UNION { [1..n -> Chars] : n \in 1..MaxNameLen }

\* 'lisa._doc.helpers.PlaceHolderRef': a dotted name with a private part.
PlaceHolderRef == <<"x", ".", "_", "x">>

\* The names that may have documentation.
Documentable ==
    { PlaceHolderRef, <<"x">>, <<"d">>, <<"x", ".", "x">>, <<"d", ".", "x">>,
      <<"x", ".", "_">>, <<"d", ".", "_">> }

\* A regular expression: a sequence of items, each a character class ("any"
\* for an unescaped dot, else the character itself) that is starred or not.
Lit(c) == [class |-> c, star |-> FALSE]

AnyStar == [class |-> "any", star |-> TRUE]

\* ignored_refs, compiled: r'devlib.*' and its like, and the two branches
\* of r'(.*\._.*|_.*)'.
ignored_refs ==
    { <<Lit("d"), AnyStar>>,
      <<AnyStar, Lit("."), Lit("_"), AnyStar>>,
      <<Lit("_"), AnyStar>> }

\* regex.match(name): the expression matches a prefix of the name.
RECURSIVE regex_match(_, _)
regex_match(regex, name) ==
    IF regex = <<>> THEN TRUE
    ELSE LET item == Head(regex)
             fits == /\ name # <<>>
                     /\ (item.class = "any" \/ item.class = Head(name))
         IN  IF item.star
             THEN \/ regex_match(Tail(regex), name)
                  \/ fits /\ regex_match(regex, Tail(name))
             ELSE fits /\ regex_match(Tail(regex), Tail(name))

\* A list holding the elements of a set, in a fixed order.
ListOf(S) ==
    CHOOSE l \in [1..Cardinality(S) -> S] :
      \A i, j \in 1..Cardinality(S) : i # j => l[i] # l[j]

EndsWith(full, name) ==
    /\ Len(full) >= Len(name)
    /\ SubSeq(full, Len(full) - Len(name) + 1, Len(full)) = name

\* PythonDomain.find_obj of Sphinx, module and class context aside: the
\* object of that exact name, or in searchmode 1, failing that, every object
\* whose dotted name ends with the name.
PythonDomain_find_obj(objs, name, searchmode) ==
    IF name \in objs THEN <<name>>
    ELSE IF searchmode = 1
    THEN ListOf({ o \in objs : EndsWith(o, <<".">> \o name) })
    ELSE <<>>

\* The branches in the other order: an ignored name is replaced by the
\* placeholder even when it has exactly one match.
find_obj_ignored_first(objs, name, searchmode) ==
    The({ IF \E regex \in ignored_refs : regex_match(regex, name)
          THEN The({ IF ph = <<>> THEN Raise("AssertionError") ELSE Ok(ph)
                     : ph \in {PythonDomain_find_obj(objs, PlaceHolderRef, 0)} })
          ELSE Ok(refs)
          : refs \in {PythonDomain_find_obj(objs, name, searchmode)} })

\* CustomPythonDomain.find_obj.
find_obj(objs, name, searchmode) ==
    The({ IF Len(refs) = 1 THEN Ok(refs)
          ELSE IF \E regex \in ignored_refs : regex_match(regex, name)
          THEN The({ IF ph = <<>> THEN Raise("AssertionError") ELSE Ok(ph)
                     : ph \in {PythonDomain_find_obj(objs, PlaceHolderRef, 0)} })
          ELSE Ok(refs)
          : refs \in {PythonDomain_find_obj(objs, name, searchmode)} })

\* Sphinx resolves the cross-references of the documents one after the other.
InitFindObj ==
    /\ rtapp_loop = <<>>
    /\ rtapp_stats = <<>>
    /\ memo_df_phases = [t \in Tasks |-> NotCached]
    /\ objects \in SUBSET Documentable
    /\ os_environ = <<>>
    /\ commands = <<>>
    /\ module_name = "builtins"
    /\ pc = "idle"
    /\ result = NoCall

Call_find_obj ==
    /\ pc = "idle"
    /\ \E name \in Names, searchmode \in {0, 1} :
         \E r \in {find_obj(objects, name, searchmode)} :
           /\ Returned("find_obj", "",
                       [name |-> name, searchmode |-> searchmode], r)
           /\ UNCHANGED memo_df_phases

NextFindObj ==
    \/ Call_find_obj
    \/ Return

SpecFindObj == InitFindObj /\ [][NextFindObj]_vars

(***************************************************************************)
(* doc/conf.py, prepare(): run when the configuration module is the        *)
(* top-level import.  os.environ is a function of the variable names, a    *)
(* name not in the dict having the value Unset.  commands logs every       *)
(* subprocess: its command, the environment it ran in and its exit status. *)
(***************************************************************************)
Unset == "<unset>"

EnvKeys == {"LISA_HOME", "LISA_USE_VENV", "PATH"}

\* The environments a documentation build may start in.
Environs ==
    { [k \in EnvKeys |->
         IF k = "LISA_HOME" THEN home
         ELSE IF k = "LISA_USE_VENV" THEN venv ELSE "/bin"] :
        home \in {Unset, "/lisa"}, venv \in {Unset, "0", "1"} }

\* Exit statuses of a subprocess: success and failure.
ReturnCodes == {0, 1}

\* subprocess.run with check=True whatever the caller asks for.
run_checked(cmd, check, returncode) ==
    IF returncode # 0 THEN Raise("CalledProcessError") ELSE Ok(<<returncode>>)

\* run(cmd, check=...): subprocess.run raises on a non-zero exit status only
\* when check is true.
run(cmd, check, returncode) ==
    IF check /\ returncode # 0 THEN Raise("CalledProcessError")
    ELSE Ok(<<returncode>>)

\* source_env: os.environ with LISA_USE_VENV=0 and without LISA_HOME.
source_env(environ) ==
    [k \in EnvKeys |->
       IF k = "LISA_USE_VENV" THEN "0"
       ELSE IF k = "LISA_HOME" THEN Unset ELSE environ[k]]

\* What the sourcing shell prints on success: its environment once init_env
\* is sourced, LISA_HOME set and PATH extended or not.
SourcedEnvs(env) ==
    { [env EXCEPT !["LISA_HOME"] = "/lisa", !["PATH"] = path] :
        path \in {env["PATH"], "/lisa/shell:/bin"} }

\* dict.update: the variables of other replace those of environ.
update(environ, other) ==
    [k \in EnvKeys |-> IF other[k] # Unset THEN other[k] ELSE environ[k]]

Command(cmd, env, returncode) ==
    [cmd |-> cmd, env |-> env, returncode |-> returncode]

InitPrepare ==
    /\ rtapp_loop = <<>>
    /\ rtapp_stats = <<>>
    /\ memo_df_phases = [t \in Tasks |-> NotCached]
    /\ objects = {}
    /\ os_environ \in Environs
    /\ commands = <<>>
    /\ module_name \in {"builtins", "conf"}
    /\ pc = "import"
    /\ result = NoCall

\* The module body: prepare() is called by the top-level import only.
import_conf ==
    /\ pc = "import"
    /\ pc' = IF module_name = "builtins" THEN "fetch_unshallow" ELSE "done"
    /\ UNCHANGED <<trace_events, memo_df_phases, doc_build, result>>

\* One of the git fetches of prepare(), run at position at; next follows.
git_fetch(at, cmd, check, next) ==
    /\ pc = at
    /\ \E returncode \in ReturnCodes :
         \E r \in {run(cmd, check, returncode)} :
           /\ commands' = Append(commands, Command(cmd, os_environ, returncode))
           /\ pc' = IF r.err # NoErr THEN "raised" ELSE next
           /\ result' = IF r.err # NoErr
                        THEN [NoCall EXCEPT !.op = cmd, !.err = r.err]
                        ELSE result
    /\ UNCHANGED <<trace_events, memo_df_phases, objects, os_environ, module_name>>

fetch_unshallow ==
    git_fetch("fetch_unshallow", "git fetch --unshallow", FALSE, "fetch_tags")

fetch_tags ==
    git_fetch("fetch_tags", "git fetch --tags", FALSE, "fetch_notes")

fetch_notes ==
    git_fetch("fetch_notes", "git fetch origin refs/notes/changelog", FALSE,
              "source")

\* subprocess.check_output of the sourcing script: raises on a non-zero exit
\* status, else returns what the script printed.
source_init_env ==
    /\ pc = "source"
    /\ \E returncode \in ReturnCodes :
         \E r \in {run("bash -c source init_env", TRUE, returncode)} :
           /\ commands' = Append(commands,
                                 Command("bash -c source init_env",
                                         source_env(os_environ), returncode))
           /\ IF r.err # NoErr
              THEN /\ pc' = "raised"
                   /\ result' = [NoCall EXCEPT !.op = "check_output", !.err = r.err]
              ELSE /\ pc' = "update"
                   /\ \E out \in SourcedEnvs(source_env(os_environ)) :
                        result' = [NoCall EXCEPT !.op = "check_output",
                                                 !.val = <<out>>]
    /\ UNCHANGED <<trace_events, memo_df_phases, objects, os_environ, module_name>>

\* os.environ.update(json.loads(out)).
update_environ ==
    /\ pc = "update"
    /\ os_environ' = update(os_environ, result.val[1])
    /\ pc' = "done"
    /\ UNCHANGED <<trace_events, memo_df_phases, objects, commands, module_name,
                   result>>

NextPrepare ==
    \/ import_conf
    \/ fetch_unshallow
    \/ fetch_tags
    \/ fetch_notes
    \/ source_init_env
    \/ update_environ

SpecPrepare == InitPrepare /\ [][NextPrepare]_vars

(***************************************************************************)
(* In-place writes.  A DataFrame is an object: a write in place (a column  *)
(* assignment, drop_duplicates(inplace=True)) changes the table of the     *)
(* trace when the frame written to is that table itself, and only the      *)
(* frame when it is a copy or a selection of it.                           *)
(***************************************************************************)
\* trace.df_events(event): the table of the trace itself.
df_events(table) == [rows |-> table, owner |-> "trace"]

\* No copy is taken: the frame is the object it is taken from.
no_copy(df) == [rows |-> df.rows, owner |-> df.owner]

\* df.copy(): a new object with the same rows.
copy(df) == [rows |-> df.rows, owner |-> "copy"]

\* df[mask] and df[[columns]]: a new object holding the selected rows.
selection(df, rows) == [rows |-> rows, owner |-> "copy"]

\* The table of the trace once the frame df, taken from it, has been written
\* in place and holds written.
written_through(df, table, written) ==
    IF df.owner = "trace" THEN written ELSE table

\* The rtapp_stats table of the trace after _get_stats has run: the column
\* perf_index is assigned in place on a deep copy of the table.
rtapp_stats_after_get_stats(stats) ==
    The({ written_through(df, stats, _get_stats(stats))
          : df \in {copy(df_events(stats))} })

\* The rtapp_loop table of the trace after the body of df_phases has run:
\* phase_loop is rewritten and the duplicates are dropped in place on a copy
\* of a selection of the rows of the task; nothing is written when
\* df_rtapp_loop raises.
rtapp_loop_after_df_phases(loop, task) ==
    The({ IF loops_df.err # NoErr THEN loop
          ELSE The({ written_through(phases_df, loop,
                                     RetainedEvents(phases_df.rows))
                     : phases_df \in
                         {copy(selection(df_events(loop), loops_df.val))} })
          : loops_df \in {df_rtapp_loop(loop, task)} })

\* The same through @memoized: a cached table is returned without running
\* the body.
rtapp_loop_after_memoized(memo, loop, task) ==
    IF memo[task].err = NoErr THEN loop
    ELSE rtapp_loop_after_df_phases(loop, task)

\* The session on a trace with rtapp_loop events, rtapp_stats events or both.
InitWrites ==
    /\ \/ rtapp_loop \in Traces /\ rtapp_stats = <<>>
       \/ /\ rtapp_loop \in {<<>>} \cup { ExampleEvents(comm) : comm \in Tasks }
          /\ rtapp_stats \in StatsTables
    /\ memo_df_phases = [t \in Tasks |-> NotCached]
    /\ NoDocBuild
    /\ pc = "idle"
    /\ result = NoCall

\* df_phases(task) with what it writes.
Write_df_phases ==
    /\ pc = "idle"
    /\ \E task \in Tasks :
         \E r \in {memoized_df_phases(memo_df_phases, rtapp_loop, task)} :
           /\ memo_df_phases' = r.memo
           /\ rtapp_loop' = rtapp_loop_after_memoized(memo_df_phases, rtapp_loop, task)
           /\ pc' = "returned"
           /\ result' = [op |-> "df_phases", task |-> task, arg |-> 0,
                         err |-> r.err, val |-> r.val]
    /\ UNCHANGED <<rtapp_stats, doc_build>>

\* df_rtapp_stats(task) with what _get_stats writes.
Write_df_rtapp_stats ==
    /\ pc = "idle"
    /\ \E task \in TaskArgs :
         \E r \in {df_rtapp_stats(rtapp_stats, task)} :
           /\ rtapp_stats' = rtapp_stats_after_get_stats(rtapp_stats)
           /\ pc' = "returned"
           /\ result' = [op |-> "df_rtapp_stats", task |-> task, arg |-> 0,
                         err |-> r.err, val |-> r.val]
    /\ UNCHANGED <<rtapp_loop, memo_df_phases, doc_build>>

NextWrites ==
    \/ Write_df_phases
    \/ Write_df_rtapp_stats
    \/ Return

SpecWrites == InitWrites /\ [][NextWrites]_vars

(***************************************************************************)
(* Vocabulary of the properties.                                           *)
(***************************************************************************)
\* The rtapp_loop events of a task, in time order.
EventsOf(task) == SelectSeq(rtapp_loop, LAMBDA r : r.comm = task)

PhasesPresent(rows) == { rows[i].phase : i \in 1..Len(rows) }

FirstStarts(rows, p) ==
    { i \in 1..Len(rows) :
        rows[i].event = "start" /\ rows[i].phase = p /\ rows[i].phase_loop = 0 }

Ends(rows, p) == { i \in 1..Len(rows) : rows[i].event = "end" /\ rows[i].phase = p }

SetMin(S) == CHOOSE x \in S : \A y \in S : x <= y

SetMax(S) == CHOOSE x \in S : \A y \in S : x >= y

\* Timestamp of the first start event of phase_loop 0 of phase p.
FirstStartTime(rows, p) == rows[SetMin(FirstStarts(rows, p))].Time

\* Timestamp of the last end event of phase p.
LastEndTime(rows, p) == rows[SetMax(Ends(rows, p))].Time

\* The retained events strictly alternate start, end, start, end, ...
Alternates(kept) ==
    /\ Len(kept) % 2 = 0
    /\ \A i \in 1..Len(kept) :
         kept[i].event = (IF i % 2 = 1 THEN "start" ELSE "end")

\* The PhaseTable of a task as df_phases derives it from the trace.
TableOf(task) == df_phases(rtapp_loop, task)

\* The window of entry i (from 1) of a PhaseTable.
WindowOf(table, i) ==
    PhaseWindow(i - 1, table[i].Time, table[i].Time + table[i].duration)

ReturnedTable(op) == pc = "returned" /\ result.op = op /\ result.err = NoErr

(***************************************************************************)
(* Properties.                                                             *)
(***************************************************************************)

\* C1: in the table df_phases returns, the entry of every phase present in
\* the task's events starts at the timestamp of the FIRST start event of
\* phase_loop 0 of that phase, also when the phase has one such event per
\* thread loop.
C1_StartIsFirstStart ==
    ReturnedTable("df_phases") =>
        LET rows == EventsOf(result.task)
        IN  \A p \in PhasesPresent(rows) :
              /\ FirstStarts(rows, p) # {}
              /\ p + 1 <= Len(result.val)
              /\ result.val[p + 1].Time = FirstStartTime(rows, p)

\* C2: every entry of the table df_phases returns is the start of a phase
\* (a start event of phase_loop 0) with, as duration, the time from that
\* start to the last end event of the same phase.
C2_DurationToLastEnd ==
    ReturnedTable("df_phases") =>
        LET rows == EventsOf(result.task)
        IN  \A i \in 1..Len(result.val) :
              \E p \in PhasesPresent(rows) :
                /\ \E k \in FirstStarts(rows, p) : rows[k].Time = result.val[i].Time
                /\ Ends(rows, p) # {}
                /\ result.val[i].duration = LastEndTime(rows, p) - result.val[i].Time

\* C3: df_phases fails (returns no table) whenever the events it retains do
\* not strictly alternate start, end, start, end, ...
C3_MalformedFails ==
    (/\ pc = "returned"
     /\ result.op = "df_phases"
     /\ result.task \in rtapp_tasks(rtapp_loop)
     /\ ~ Alternates(RetainedEvents(EventsOf(result.task))))
    => result.err # NoErr

\* The entries of a PhaseTable whose interval [start, start + duration)
\* contains timestamp t.
Containing(table, t) ==
    { i \in 1..Len(table) :
        table[i].Time <= t /\ t < table[i].Time + table[i].duration }

\* C4: when task_phase_at(task, t) returns, it returns the window of the
\* phase of the task's PhaseTable whose interval [start, start + duration)
\* contains t (so phase k for t at the start of phase k), and None when no
\* interval contains t (t in a gap between two phases).
C4_PhaseAtHalfOpen ==
    (ReturnedTable("task_phase_at") /\ TableOf(result.task).err = NoErr) =>
        LET table == TableOf(result.task).val
            hit == Containing(table, result.arg)
        IN  IF hit = {} THEN result.val = <<>>
            ELSE \E i \in hit : result.val = <<WindowOf(table, i)>>

\* C5: task_phase_at(task, t) returns None, and raises nothing, for t before
\* the first phase start of the task's table and for t at or after the end of
\* its last phase.
C5_AbsentOutside ==
    (/\ pc = "returned"
     /\ result.op = "task_phase_at"
     /\ TableOf(result.task).err = NoErr
     /\ TableOf(result.task).val # <<>>
     /\ LET table == TableOf(result.task).val
            last == table[Len(table)]
        IN  \/ result.arg < table[1].Time
            \/ result.arg >= last.Time + last.duration)
    => (result.err = NoErr /\ result.val = <<>>)

\* Number of phases of a task: the distinct phase indices of its events.
NumPhases(task) == Cardinality(PhasesPresent(EventsOf(task)))

\* C6: task_phase_window(task, -k), for 1 <= k <= N, returns what
\* task_phase_window(task, N - k) returns, the id of the window included.
C6_NegativeIndexResolved ==
    (/\ pc = "returned"
     /\ result.op = "task_phase_window"
     /\ result.arg < 0
     /\ result.arg >= - NumPhases(result.task))
    => LET same == task_phase_window(rtapp_loop, result.task,
                                     NumPhases(result.task) + result.arg)
       IN  result.err = same.err /\ result.val = same.val

\* C7: task_phase_window(task, phase) fails for every phase outside
\* [-N, N) of a task of N phases.
C7_OutOfRangeFails ==
    (/\ pc = "returned"
     /\ result.op = "task_phase_window"
     /\ result.task \in rtapp_tasks(rtapp_loop)
     /\ \/ result.arg >= NumPhases(result.task)
        \/ result.arg < - NumPhases(result.task))
    => result.err # NoErr

\* C8: for every index i of the task's PhaseTable, task_phase_window(task, i)
\* returns (i, start_i, start_i + duration_i), the i-th window of
\* task_phase_windows(task).
C8_WindowAgreesWithTable ==
    (/\ pc = "returned"
     /\ result.op = "task_phase_window"
     /\ TableOf(result.task).err = NoErr
     /\ result.arg >= 0
     /\ result.arg < Len(TableOf(result.task).val))
    => /\ result.err = NoErr
       /\ result.val = <<WindowOf(TableOf(result.task).val, result.arg + 1)>>

C10_StartBeforeEnd ==
    (/\ pc = "returned"
     /\ result.op \in {"task_phase_window", "task_phase_at", "task_phase_windows"}
     /\ result.err = NoErr)
    => \A i \in 1..Len(result.val) : result.val[i].start <= result.val[i].end

\* C11: the table df_phases returns has exactly one entry per distinct phase
\* of the task's events, and the entry at position i (from 0) is derived from
\* the events of phase i: the retained start and end events it is built from
\* both carry phase i, also when the phases repeat over thread loops.
C11_PositionIsPhase ==
    ReturnedTable("df_phases") =>
        LET rows == EventsOf(result.task)
            kept == RetainedEvents(rows)
        IN  /\ Len(result.val) = Cardinality(PhasesPresent(rows))
            /\ \A i \in 1..Len(result.val) :
                 /\ result.val[i].Time = kept[2 * i - 1].Time
                 /\ kept[2 * i - 1].phase = i - 1
                 /\ kept[2 * i].phase = i - 1

\* C12: on the example trace of a task A, df_phases(A) is the table
\* [(0, 10), (10, 10)], task_phase_at(A, 15) is the window (1, 10, 20) and
\* task_phase_at(A, 25) is None.
C12_SpecExample ==
    (pc = "returned" /\ rtapp_loop = ExampleEvents(result.task)) =>
        /\ result.op = "df_phases" =>
             /\ result.err = NoErr
             /\ result.val = << [Time |-> 0, duration |-> 10],
                                [Time |-> 10, duration |-> 10] >>
        /\ (result.op = "task_phase_at" /\ result.arg = 15) =>
             /\ result.err = NoErr
             /\ result.val = << PhaseWindow(1, 10, 20) >>
        /\ (result.op = "task_phase_at" /\ result.arg = 25) =>
             /\ result.err = NoErr
             /\ result.val = << >>

\* C13: every call of df_phases for a task answers with the table (or the
\* error) df_phases derives from the trace for that task, whether the answer
\* is computed or served from the cache and whatever calls for other tasks
\* came before: a cached table is always that table, so two calls for the
\* same task return identical tables.
C13_SameTableEveryCall ==
    /\ \A task \in Tasks :
         memo_df_phases[task].err = NoErr =>
           memo_df_phases[task] = df_phases(rtapp_loop, task)
    /\ (pc = "returned" /\ result.op = "df_phases") =>
         [err |-> result.err, val |-> result.val]
           = df_phases(rtapp_loop, result.task)

\* df_phases has returned a table of several phases for a task while the
\* tables of both tasks are cached: calls for the two tasks were interleaved.
C13_Witness ==
    /\ ReturnedTable("df_phases")
    /\ Len(result.val) >= 2
    /\ \A task \in Tasks : memo_df_phases[task].err = NoErr
    /\ memo_df_phases["test_task-0"] # memo_df_phases["test_task-1"]

\* C14: task_phase_windows yields, for a table of N phases, exactly N windows:
\* window i (from 0) has id i and is (i, start_i, start_i + duration_i) of
\* entry i of the table df_phases derives from the trace, the windows are in
\* non-decreasing order of start, and every iteration (the table then served
\* from the cache) yields that same sequence.
C14_WindowsOfTable ==
    ReturnedTable("task_phase_windows") =>
        LET table == TableOf(result.task).val
        IN  /\ TableOf(result.task).err = NoErr
            /\ Len(result.val) = Len(table)
            /\ \A i \in 1..Len(result.val) :
                 /\ result.val[i].id = i - 1
                 /\ result.val[i].start = table[i].Time
                 /\ result.val[i].end = table[i].Time + table[i].duration
            /\ \A i \in 1..(Len(result.val) - 1) :
                 result.val[i].start <= result.val[i + 1].start

\* task_phase_windows has yielded the windows of a table of two or more
\* phases of different start times.
C14_Witness ==
    /\ ReturnedTable("task_phase_windows")
    /\ Len(result.val) >= 2
    /\ result.val[1].start < result.val[Len(result.val)].start

\* C15: a phase operation called for a task that has no rt-app event in the
\* trace fails: it returns no value, and the exception is not a low-level
\* indexing failure (IndexError, KeyError).
C15_MissingTaskFails ==
    (pc = "returned" /\ EventsOf(result.task) = <<>>) =>
        result.err \notin {NoErr, "IndexError", "KeyError"}

\* C16: in every row of the table df_rtapp_stats returns, perf_index is
\* slack / (c_period - c_run), a perf_index in [0..1] stands for an
\* activation completed within its deadline (slack >= 0) and a negative
\* perf_index for a late one (slack < 0), whatever the integers slack,
\* c_period and c_run are, c_period <= c_run included.
C16_PerfIndexMeaning ==
    (pc = "returned" /\ result.op = "df_rtapp_stats" /\ result.err = NoErr) =>
        \A i \in 1..Len(result.val) :
          LET row == result.val[i]
              perf == row.perf_index
          IN  /\ perf = Divide(row.slack, row.c_period - row.c_run)
              /\ (perf.kind = "finite" /\ 0 <= perf.num /\ perf.num <= perf.den)
                   => row.slack >= 0
              /\ (perf.kind = "-inf" \/ (perf.kind = "finite" /\ perf.num < 0))
                   => row.slack < 0

\* C19: df_rtapp_stats (through _task_filtered) returns the table unfiltered
\* only when no task is given; for a given int, str or TaskID that names a
\* task of the trace it raises ValueError and returns no table when that
\* task is not an rt-app task, and else returns exactly the rows of that
\* task.
C19_TaskFilter ==
    (pc = "returned" /\ result.op = "df_rtapp_stats") =>
        LET task == result.task
            all  == _get_stats(rtapp_stats)
            ids  == { t \in TraceTaskIDs :
                        \/ task.type = "int" /\ t.pid = task.pid
                        \/ task.type = "str" /\ t.comm = task.comm
                        \/ task.type = "TaskID" /\ t = TaskID(task.pid, task.comm) }
        IN  /\ task.type = "NoneType" =>
                 result.err = NoErr /\ result.val = all
            /\ \A t \in ids :
                 IF t.comm \in rtapp_tasks(rtapp_stats)
                 THEN /\ result.err = NoErr
                      /\ result.val = SelectSeq(all, LAMBDA r : r.comm = t.comm)
                 ELSE /\ result.err = "ValueError"
                      /\ result.val = <<>>

\* C17: what task_phase_at(task, timestamp) returns or raises depends on the
\* rtapp_loop events of the queried task only: it is what the same call
\* gives on the trace that holds the events of that task and no other, so
\* two traces that agree on the task's events give the same result.
C17_OwnEventsOnly ==
    (pc = "returned" /\ result.op = "task_phase_at") =>
        LET own == task_phase_at([t \in Tasks |-> NotCached],
                                 EventsOf(result.task), result.task, result.arg)
        IN  result.err = own.err /\ result.val = own.val

\* The name starts with "d", starts with "_" or holds "._" somewhere: it
\* matches, from its start, one of the ignored patterns.
IgnoredName(name) ==
    \/ name[1] \in {"d", "_"}
    \/ \E i \in 1..(Len(name) - 1) : name[i] = "." /\ name[i + 1] = "_"

\* C18: find_obj returns the base lookup unchanged when it has exactly one
\* match, also for an ignored name; otherwise, for a name that matches an
\* ignored pattern from its start, it returns the lookup of the placeholder
\* class, which is not empty (the assertion fails when it would be), for
\* zero and for several base matches alike; otherwise it returns the base
\* lookup unchanged.
C18_PlaceholderRule ==
    (pc = "returned" /\ result.op = "find_obj") =>
        LET name == result.arg.name
            base == PythonDomain_find_obj(objects, name, result.arg.searchmode)
            ph   == PythonDomain_find_obj(objects, PlaceHolderRef, 0)
        IN  IF Len(base) = 1
            THEN result.err = NoErr /\ result.val = base
            ELSE IF IgnoredName(name)
            THEN IF ph # <<>>
                 THEN result.err = NoErr /\ result.val = ph
                 ELSE result.err = "AssertionError" /\ result.val = <<>>
            ELSE result.err = NoErr /\ result.val = base

\* An ignored name with several base matches has been resolved to the
\* placeholder, in a domain where another ignored name has exactly one match.
C18_Witness ==
    /\ pc = "returned"
    /\ result.op = "find_obj"
    /\ IgnoredName(result.arg.name)
    /\ Len(PythonDomain_find_obj(objects, result.arg.name, result.arg.searchmode)) >= 2
    /\ result.val = <<PlaceHolderRef>>
    /\ <<"d">> \in objects

\* The order of the subprocesses of prepare().
PrepareOrder ==
    << "git fetch --unshallow", "git fetch --tags",
       "git fetch origin refs/notes/changelog", "bash -c source init_env" >>

\* C20: prepare() runs only in the top-level import (__name__ 'builtins');
\* its subprocesses run in the fixed order unshallow fetch, tag fetch,
\* changelog-notes fetch, sourcing of init_env; the sourcing runs with
\* LISA_USE_VENV=0 and without LISA_HOME, the rest of os.environ as it is;
\* os.environ is updated only after the sourcing succeeded; a failed git
\* fetch does not stop prepare(), a failed sourcing raises and leaves
\* os.environ as it was.
C20_PrepareOrder ==
    /\ module_name # "builtins" => commands = <<>> /\ pc \in {"import", "done"}
    /\ Len(commands) <= Len(PrepareOrder)
    /\ \A i \in 1..Len(commands) : commands[i].cmd = PrepareOrder[i]
    /\ (module_name = "builtins" /\ pc \in {"done", "raised", "update"}) =>
         /\ Len(commands) = Len(PrepareOrder)
         /\ \A k \in EnvKeys :
              commands[4].env[k] =
                IF k = "LISA_USE_VENV" THEN "0"
                ELSE IF k = "LISA_HOME" THEN Unset
                ELSE commands[1].env[k]
    /\ (commands # <<>> /\ pc # "done") => os_environ = commands[1].env
    /\ pc = "raised" =>
         /\ commands[Len(commands)].cmd = "bash -c source init_env"
         /\ commands[Len(commands)].returncode # 0
    /\ (module_name = "builtins" /\ pc = "done") =>
         /\ commands[4].returncode = 0
         /\ \A k \in EnvKeys :
              os_environ[k] = IF result.val[1][k] # Unset THEN result.val[1][k]
                              ELSE commands[1].env[k]

\* The sourcing has failed after all three git fetches failed, in a build
\* started with LISA_HOME set: prepare() has raised.
C20_Witness ==
    /\ pc = "raised"
    /\ Len(commands) = 4
    /\ \A i \in 1..4 : commands[i].returncode # 0
    /\ os_environ["LISA_HOME"] # Unset

\* C21: no analysis call changes the event tables of the trace: across
\* every step, df_phases (which rewrites phase_loop and drops rows) and
\* df_rtapp_stats (whose _get_stats adds the column perf_index) included,
\* rtapp_loop and rtapp_stats keep the rows and the columns they had.
C21_InputTablesUnchanged ==
    [][rtapp_loop' = rtapp_loop /\ rtapp_stats' = rtapp_stats]_vars

\* df_rtapp_stats has returned rows with their perf_index, after df_phases
\* has dropped rows to build the table of a task, on a trace that holds
\* both kinds of events.
C21_Witness ==
    /\ pc = "returned"
    /\ result.op = "df_rtapp_stats"
    /\ result.err = NoErr
    /\ result.val # <<>>
    /\ rtapp_stats # <<>>
    /\ \E task \in Tasks :
         /\ memo_df_phases[task].err = NoErr
         /\ 2 * Len(memo_df_phases[task].val) < Len(EventsOf(task))

====
